---- MODULE Spec2Model ----
(***************************************************************************)
(* fixed::String<N> (include/fixed-string): a fixed-size, null-terminated  *)
(* character array usable as a template argument, with its member and      *)
(* non-member functions.  A String<N> is the record                        *)
(*     [size |-> N, _arr |-> <<c_0, ..., c_N>>]                            *)
(* where the C++ index i of std::array is position i + 1 of the sequence.  *)
(* Characters are their ASCII codes.  A call returns an outcome: either    *)
(* Returned(v) or Terminated (FS_ASSERT printed and called                 *)
(* std::terminate).  A call whose behaviour is undefined has every outcome *)
(* the build can produce, so every function is modelled by the SET of its  *)
(* outcomes.                                                               *)
(***************************************************************************)
EXTENDS Integers, Sequences, FiniteSets, TLC

VARIABLES
  checks,      \* TRUE: FS_ASSERT is compiled in; FALSE: NDEBUG or FS_NOASSERT
  a, b, c,     \* the String operands of the program
  x,           \* the unsigned template argument of itoa<x>
  op,          \* the operation performed last ("none" before the first)
  args,        \* the inputs of that operation
  res,         \* its outcome
  terminated   \* std::terminate was called

vars == <<checks, a, b, c, x, op, args, res, terminated>>

-----------------------------------------------------------------------------
(* Bounds of the model *)

MaxTotal == 3     \* total number of content characters of the operands a, b, c
MaxX == 120       \* largest template argument of itoa
Overshoot == 2    \* how far past the end an index is tried

(* Characters *)

NUL == 0          \* '\0'
Zero == 48        \* '0'
Alphabet == {NUL, Zero, 97}   \* '\0', '0', 'a'

(* std::size_t of atoi: 64 bits, kept as four 16-bit limbs, least first *)
LimbBits == 16
NumLimbs == 4
LimbBase == 2 ^ LimbBits
UCharMod == 256   \* unsigned char

-----------------------------------------------------------------------------
(* Outcomes *)

Terminated == [term |-> TRUE]
Returned(v) == [term |-> FALSE, val |-> v]

\* FS_ASSERT(CONDITION, ...): terminates iff compiled in and CONDITION is false
FS_ASSERT_fails(cond) == checks /\ ~cond

Zeros(n) == [k \in 1..n |-> NUL]

\* explicit String() : _arr{} {}
StringDefault(N) == [size |-> N, _arr |-> Zeros(N + 1)]

\* arr_from_str<N>(str): assert, then copy N + 1 characters
arr_from_str(N, str) ==
  IF FS_ASSERT_fails(str[N + 1] = NUL) THEN {Terminated}
  ELSE {Returned([k \in 1..(N + 1) |-> str[k]])}

\* String(char const (&str)[size + 1]) : _arr{arr_from_str<size>(str)}
StringFromLiteral(N, str) ==
  {IF o.term THEN Terminated ELSE Returned([size |-> N, _arr |-> o.val]) :
     o \in arr_from_str(N, str)}

\* explicit String(std::array<char, size + 1>&& str) : _arr{std::move(str)}
StringFromArray(N, str) ==
  IF FS_ASSERT_fails(str[N + 1] = NUL) THEN {Terminated}
  ELSE {Returned([size |-> N, _arr |-> str])}

\* mutant: the terminator slot assigned the character
StringFromChar_noterm(ch) == [size |-> 1, _arr |-> <<ch, ch>>]

\* explicit String(char c) requires (size == 1)
StringFromChar(ch) == [size |-> 1, _arr |-> <<ch, NUL>>]


-----------------------------------------------------------------------------
(* Member functions *)

\* mutant: the assertion off by one, i <= size
Subscript_offbyone(s, i) ==
  IF FS_ASSERT_fails(i <= s.size) THEN {Terminated}
  ELSE IF i < Len(s._arr) THEN {Returned(s._arr[i + 1])}
  ELSE {Returned(ch) : ch \in Alphabet} \cup {Terminated}

\* char operator[](std::size_t i) const { FS_ASSERT(i < size, ...); return _arr[i]; }
\* Without the assertion an index past the array is an out-of-bounds read:
\* undefined behaviour, any character or a crash.
Subscript(s, i) ==
  IF FS_ASSERT_fails(i < s.size) THEN {Terminated}
  ELSE IF i < Len(s._arr) THEN {Returned(s._arr[i + 1])}
  ELSE {Returned(ch) : ch \in Alphabet} \cup {Terminated}

\* bool contains(char c) const: for (i = 0; i < size; ++i) if (operator[](i) == c) return true;
RECURSIVE ContainsFrom(_, _, _)
ContainsFrom(s, ch, i) ==
  IF i < s.size
    THEN UNION {IF o.term THEN {Terminated}
                ELSE IF o.val = ch THEN {Returned(TRUE)}
                ELSE ContainsFrom(s, ch, i + 1) : o \in Subscript(s, i)}
    ELSE {Returned(FALSE)}

\* mutant: a match is reported only from index 1 on
contains_skipfirst(s, ch) == ContainsFrom(s, ch, 1)

contains(s, ch) == ContainsFrom(s, ch, 0)

\* std::size_t find(char c) const: for (i = 0; i < size; ++i) if (operator[](i) == c) return i;
RECURSIVE FindFrom(_, _, _)
FindFrom(s, ch, i) ==
  IF i < s.size
    THEN UNION {IF o.term THEN {Terminated}
                ELSE IF o.val = ch THEN {Returned(i)}
                ELSE FindFrom(s, ch, i + 1) : o \in Subscript(s, i)}
    ELSE {Returned(s.size)}

\* mutant: the last matching index instead of the first
find_last(s, ch) ==
  LET M == {i \in 0..(s.size - 1) : s._arr[i + 1] = ch}
  IN {Returned(IF M = {} THEN s.size ELSE CHOOSE i \in M : \A j \in M : j <= i)}

find(s, ch) == FindFrom(s, ch, 0)

(* std::size_t arithmetic, modulo 2^64 *)

\* r * mul + carry, limb by limb from limb k, the carry out of the top limb dropped
RECURSIVE MulAddFrom(_, _, _, _)
MulAddFrom(r, k, mul, carry) ==
  IF k > Len(r) THEN <<>>
  ELSE LET t == r[k] * mul + carry
           lo == t % LimbBase
       IN <<lo>> \o MulAddFrom(r, k + 1, mul, (t - lo) \div LimbBase)

SizeT(n) == MulAddFrom([k \in 1..NumLimbs |-> 0], 1, 1, n)

\* std::size_t atoi() const: r = 0; for (i = 0; i < size; ++i) { r *= 10; r += _arr[i] - '0'; }
RECURSIVE AtoiFrom(_, _, _)
AtoiFrom(s, i, r) ==
  IF i < s.size
    THEN AtoiFrom(s, i + 1,
                  MulAddFrom(MulAddFrom(r, 1, 10, 0), 1, 1, s._arr[i + 1] - Zero))
    ELSE r

atoi(s) == AtoiFrom(s, 0, SizeT(0))

-----------------------------------------------------------------------------
(* Non-member functions *)

\* std::equal(first1, last1, first2) over the whole of lhs._arr
ArrEqual(l, r) == \A k \in 1..Len(l) : l[k] = r[k]

\* mutant: no length check, the arrays compared over the shorter length
streq_nolength(lhs, rhs) ==
  \A k \in 1..(IF lhs.size < rhs.size THEN lhs.size ELSE rhs.size) :
    lhs._arr[k] = rhs._arr[k]

\* streq: if constexpr (N != M) return false; return std::equal(...);
streq(lhs, rhs) ==
  IF lhs.size # rhs.size THEN FALSE ELSE ArrEqual(lhs._arr, rhs._arr)

\* operator==: return streq(lhs, rhs);
OpEq(lhs, rhs) == streq(lhs, rhs)

\* std::copy_n(src.begin(), n, dst.begin() + at)
CopyN(src, n, dst, at) ==
  [k \in 1..Len(dst) |-> IF at < k /\ k <= at + n THEN src[k - at] ELSE dst[k]]

\* mutant: the right operand copied one slot too far, after the left's terminator
Plus_offbyone(lhs, rhs) ==
  LET N == lhs.size
      M == rhs.size
      rtn0 == StringDefault(N + M)._arr
      rtn1 == CopyN(lhs._arr, N + 1, rtn0, 0)
      rtn2 == IF M = 0 THEN rtn1 ELSE CopyN(rhs._arr, M - 1, rtn1, N + 1)
  IN [size |-> N + M, _arr |-> [rtn2 EXCEPT ![N + M + 1] = NUL]]

\* operator+(String<N> const&, String<M> const&) -> String<N + M>
Plus(lhs, rhs) ==
  LET N == lhs.size
      M == rhs.size
      rtn0 == StringDefault(N + M)._arr
      rtn1 == CopyN(lhs._arr, N, rtn0, 0)
      rtn2 == CopyN(rhs._arr, M, rtn1, N)
  IN [size |-> N + M, _arr |-> [rtn2 EXCEPT ![N + M + 1] = NUL]]

\* operator+(String<N> const& lhs, T const& rhs): return lhs + String{rhs};  (T = char)
PlusChar(lhs, ch) == Plus(lhs, StringFromChar(ch))

\* operator+(T const& lhs, String<N> const& rhs): return String{lhs} + rhs;  (T = char)
CharPlus(ch, rhs) == Plus(StringFromChar(ch), rhs)

\* substring<Begin, End>: requires ((Begin >= 0) and (End <= N) and (Begin <= End))
SubstringRequires(Begin, End, N) == Begin >= 0 /\ End <= N /\ Begin <= End

\* for (i = 0; i < End - Begin; ++i) r._arr[i] = s[Begin + i];  r._arr[End - Begin] = '\0';
RECURSIVE SubstringFrom(_, _, _, _, _)
SubstringFrom(s, Begin, End, i, r) ==
  IF i < End - Begin
    THEN UNION {IF o.term THEN {Terminated}
                ELSE SubstringFrom(s, Begin, End, i + 1, [r EXCEPT ![i + 1] = o.val]) :
                  o \in Subscript(s, Begin + i)}
    ELSE {Returned([size |-> End - Begin, _arr |-> [r EXCEPT ![End - Begin + 1] = NUL]])}

\* mutant: the slice read from index 0 instead of Begin
substring_nobegin(Begin, End, s) ==
  SubstringFrom(s, 0, End - Begin, 0, StringDefault(End - Begin)._arr)

substring(Begin, End, s) ==
  SubstringFrom(s, Begin, End, 0, StringDefault(End - Begin)._arr)

\* inline constexpr unsigned char log10{x ? 1 + log10<x / 10U> : 0};
RECURSIVE log10(_)
log10(n) == IF n # 0 THEN (1 + log10(n \div 10)) % UCharMod ELSE 0

\* for (auto n{x}; n > 0; n /= 10U) { _arr[i--] = static_cast<char>(n % 10U + '0'); }
RECURSIVE ItoaLoop(_, _, _)
ItoaLoop(arr, n, i) ==
  IF n > 0
    THEN ItoaLoop([arr EXCEPT ![i + 1] = (n % 10) + Zero], n \div 10, (i - 1) % UCharMod)
    ELSE arr

\* array_itoa<x>(): std::array<char, log10<x> + 2> _arr{}; _arr[log10<x> + 1] = '\0'; ...
array_itoa(n) ==
  LET arr0 == Zeros(log10(n) + 2)
      arr1 == [arr0 EXCEPT ![log10(n) + 2] = NUL]
  IN ItoaLoop(arr1, n, log10(n))

\* inline constexpr String<log10<x> + 1> itoa{array_itoa<x>()};
itoa(n) == StringFromArray(log10(n) + 1, array_itoa(n))

-----------------------------------------------------------------------------
(* The program: operands built from literals, then any of the operations *)

\* the character arrays of the literals with n content characters
Literals(n) ==
  {[k \in 1..(n + 1) |-> IF k <= n THEN s[k] ELSE NUL] : s \in [1..n -> Alphabet]}

\* the String<n> values the literal constructor builds from them
Instances(n) ==
  {o.val : o \in {p \in UNION {StringFromLiteral(n, str) : str \in Literals(n)} : ~p.term}}

Empty == StringDefault(0)

Init ==
  /\ checks \in BOOLEAN
  /\ \E na, nb, nc \in 0..MaxTotal :
       /\ na + nb + nc <= MaxTotal
       /\ a \in Instances(na)
       /\ b \in Instances(nb)
       /\ c \in Instances(nc)
  /\ x \in 0..MaxX
  /\ x = 0 \/ (a = Empty /\ b = Empty /\ c = Empty)
  /\ op = "none"
  /\ args = <<>>
  /\ res = Returned(0)
  /\ terminated = FALSE

\* the program makes one call on its inputs: the outcome is recorded, and a
\* failed assertion ends the program
Call(name, inputs, outcomes) ==
  /\ op = "none"
  /\ ~terminated
  /\ \E o \in outcomes :
       /\ res' = o
       /\ terminated' = o.term
  /\ op' = name
  /\ args' = inputs
  /\ UNCHANGED <<checks, a, b, c, x>>

\* a character array of a.size + 1 characters: a's content and any last character
Buffer(last) == [a._arr EXCEPT ![a.size + 1] = last]

DefaultCtor ==
  \E N \in 0..MaxTotal : Call("default", <<N>>, {Returned(StringDefault(N))})

LiteralCtor ==
  \E last \in Alphabet :
    Call("literal", <<Buffer(last)>>, StringFromLiteral(a.size, Buffer(last)))

ArrayCtor ==
  \E last \in Alphabet :
    Call("array", <<Buffer(last)>>, StringFromArray(a.size, Buffer(last)))

CharCtor ==
  \E ch \in Alphabet : Call("char", <<ch>>, {Returned(StringFromChar(ch))})

SubscriptOp ==
  \E i \in 0..(a.size + Overshoot) : Call("subscript", <<i>>, Subscript(a, i))

ContainsOp ==
  \E ch \in Alphabet : Call("contains", <<ch>>, contains(a, ch))

FindOp ==
  \E ch \in Alphabet : Call("find", <<ch>>, find(a, ch))

AtoiOp == Call("atoi", <<>>, {Returned(atoi(a))})

StreqOp == Call("streq", <<>>, {Returned(streq(a, b))})

EqOp == Call("eq", <<>>, {Returned(OpEq(a, b))})

PlusOp == Call("plus", <<>>, {Returned(Plus(a, b))})

PlusCharOp ==
  \E ch \in Alphabet : Call("pluschar", <<ch>>, {Returned(PlusChar(a, ch))})

CharPlusOp ==
  \E ch \in Alphabet : Call("charplus", <<ch>>, {Returned(CharPlus(ch, a))})

\* (a + b) + c == a + (b + c)
AssocOp ==
  LET l == Plus(Plus(a, b), c)
      r == Plus(a, Plus(b, c))
  IN Call("assoc", <<>>, {Returned([l |-> l, r |-> r, eq |-> OpEq(l, r)])})

SubstringOp ==
  \E Begin, End \in 0..(a.size + Overshoot) :
    /\ SubstringRequires(Begin, End, a.size)
    /\ Call("substring", <<Begin, End>>, substring(Begin, End, a))

ItoaOp == Call("itoa", <<>>, itoa(x))

\* itoa<x>.atoi()
ItoaAtoiOp ==
  Call("itoa_atoi", <<>>,
       {IF o.term THEN Terminated ELSE Returned(atoi(o.val)) : o \in itoa(x)})

Next ==
  \/ DefaultCtor
  \/ LiteralCtor
  \/ ArrayCtor
  \/ CharCtor
  \/ SubscriptOp
  \/ ContainsOp
  \/ FindOp
  \/ AtoiOp
  \/ StreqOp
  \/ EqOp
  \/ PlusOp
  \/ PlusCharOp
  \/ CharPlusOp
  \/ AssocOp
  \/ SubstringOp
  \/ ItoaOp
  \/ ItoaAtoiOp

Spec == Init /\ [][Next]_vars

-----------------------------------------------------------------------------
(* Properties *)

\* C index i of a String's array
At(s, i) == s._arr[i + 1]

\* I1: the array has size + 1 slots and the last holds the terminator
TerminatorInPlace(s) == Len(s._arr) = s.size + 1 /\ At(s, s.size) = NUL

\* the decimal numeral of n, by definition
RECURSIVE NumDigits(_)
NumDigits(n) == IF n < 10 THEN 1 ELSE 1 + NumDigits(n \div 10)

RECURSIVE Pow10(_)
Pow10(k) == IF k = 0 THEN 1 ELSE 10 * Pow10(k - 1)

Decimal(n) ==
  LET d == NumDigits(n)
  IN [size |-> d,
      _arr |-> [k \in 1..(d + 1) |->
                  IF k <= d THEN Zero + ((n \div Pow10(d - k)) % 10) ELSE NUL]]

\* C1: itoa<x> is the canonical decimal numeral of x: NumDigits(x) characters,
\* the digits of x most significant first, no padding; "0" for x = 0.
C1_ItoaCanonical ==
  op = "itoa" => ~res.term /\ res.val = Decimal(x)

\* C2: atoi() of itoa<x> returns x, for every x including 0.
C2_ItoaAtoiRoundTrip ==
  op = "itoa_atoi" => ~res.term /\ res.val = SizeT(x)

\* C3 (invariant I1): every String produced from valid input by any
\* construction path (literal, raw array ending in zero, single character,
\* default construction, operator+, substring, itoa) holds the terminator
\* at index N; so do the operands, which the literal constructor built.
C3_TerminatorInvariant ==
  /\ TerminatorInPlace(a) /\ TerminatorInPlace(b) /\ TerminatorInPlace(c)
  /\ op \in {"literal", "array"} /\ ~res.term /\ args[1][Len(args[1])] = NUL
       => TerminatorInPlace(res.val)
  /\ op \in {"default", "char", "plus", "pluschar", "charplus", "substring", "itoa"}
       /\ ~res.term
       => TerminatorInPlace(res.val)
  /\ op = "assoc" => TerminatorInPlace(res.val.l) /\ TerminatorInPlace(res.val.r)

C3_Witness ==
  /\ op = "literal" /\ ~res.term
  /\ args[1][Len(args[1])] = NUL
  /\ res.val.size = 2 /\ At(res.val, 0) = 97 /\ At(res.val, 2) = NUL

\* C4: streq(a, b) and a == b are true iff the lengths are equal and the
\* characters at every index in [0, N) match; false whenever the lengths differ.
C4_EqualityIffSameContent ==
  op \in {"streq", "eq"} =>
    /\ ~res.term
    /\ res.val = (/\ a.size = b.size
                  /\ \A i \in 0..(a.size - 1) : At(a, i) = At(b, i))
    /\ a.size # b.size => res.val = FALSE

C4_Witness ==
  /\ op = "eq" /\ a.size = 1 /\ b.size = 1 /\ At(a, 0) = At(b, 0)
  /\ res.val = TRUE

\* what C5 says of s = l + r
IsConcatenation(l, r, s) ==
  /\ s.size = l.size + r.size
  /\ Len(s._arr) = s.size + 1
  /\ \A i \in 0..(s.size - 1) :
       At(s, i) = IF i < l.size THEN At(l, i) ELSE At(r, i - l.size)
  /\ At(s, s.size) = NUL

\* C5: a + b has length N + M, a's characters at [0, N), b's at [N, N + M),
\* the terminator at N + M; a's terminator is not copied into the content.
\* A character operand on either side stands for the String<1> holding it.
C5_Concatenation ==
  /\ op = "plus" => ~res.term /\ IsConcatenation(a, b, res.val)
  /\ op = "pluschar" =>
       ~res.term /\ IsConcatenation(a, [size |-> 1, _arr |-> <<args[1], NUL>>], res.val)
  /\ op = "charplus" =>
       ~res.term /\ IsConcatenation([size |-> 1, _arr |-> <<args[1], NUL>>], a, res.val)

C5_Witness ==
  /\ op = "plus" /\ a.size = 2 /\ b.size = 1
  /\ At(a, 1) = 97 /\ At(b, 0) = Zero
  /\ res.val.size = 3 /\ At(res.val, 1) = 97 /\ At(res.val, 2) = Zero

\* C6: (a + b) + c and a + (b + c) have the same length and compare equal
\* under operator==, empty operands included.
C6_ConcatenationAssociative ==
  op = "assoc" =>
    /\ ~res.term
    /\ res.val.l.size = res.val.r.size
    /\ res.val.eq = TRUE
    /\ res.val.l.size = a.size + b.size + c.size

C6_Witness ==
  /\ op = "assoc" /\ a.size = 1 /\ b.size = 1 /\ c.size = 1
  /\ At(a, 0) = 97 /\ At(b, 0) = Zero /\ At(c, 0) = 97
  /\ res.val.eq = TRUE

\* C7: for 0 <= Begin <= End <= N, substring<Begin, End>(s) has length
\* End - Begin, the character s[Begin + i] at each i in [0, End - Begin), the
\* terminator at End - Begin, and never fails the bounds check; so
\* substring<0, N>(s) equals s and substring<k, k>(s) has length 0.
C7_Substring ==
  op = "substring" =>
    LET Begin == args[1]
        End == args[2]
    IN /\ ~res.term
       /\ res.val.size = End - Begin
       /\ Len(res.val._arr) = End - Begin + 1
       /\ \A i \in 0..(End - Begin - 1) : At(res.val, i) = At(a, Begin + i)
       /\ At(res.val, End - Begin) = NUL
       /\ Begin = 0 /\ End = a.size => res.val = a /\ streq(res.val, a)
       /\ Begin = End => res.val.size = 0

C7_Witness ==
  /\ op = "substring" /\ checks /\ a.size = 3 /\ args = <<1, 3>>
  /\ At(a, 0) = 97 /\ At(a, 1) = Zero
  /\ ~res.term /\ res.val.size = 2 /\ At(res.val, 0) = Zero

\* C8: with checks enabled, s[i] returns the character at i without failure
\* for every i < N, and for every i >= N takes the fatal path and returns
\* no value.
C8_SubscriptChecked ==
  op = "subscript" /\ checks =>
    LET i == args[1]
    IN /\ i < a.size => ~res.term /\ res.val = At(a, i)
       /\ i >= a.size => res.term /\ terminated

C8_Witness ==
  op = "subscript" /\ checks /\ a.size >= 1 /\ args[1] = a.size /\ res.term

\* the indices in [0, N) at which s holds ch
Matches(s, ch) == {i \in 0..(s.size - 1) : At(s, i) = ch}

\* C9: find(c) returns the smallest index in [0, N) holding c when there is
\* one, and N otherwise; the terminator at index N is never a match.
C9_FindSmallestOrSize ==
  op = "find" =>
    LET M == Matches(a, args[1])
    IN /\ ~res.term
       /\ M = {} => res.val = a.size
       /\ M # {} => res.val \in M /\ \A j \in M : res.val <= j

C9_Witness ==
  /\ op = "find" /\ a.size = 3 /\ args[1] = Zero
  /\ At(a, 0) = 97 /\ At(a, 1) = Zero /\ At(a, 2) = Zero
  /\ res.val = 1

\* C10: contains(c) is true iff some index in [0, N) holds c; the terminator
\* is not scanned, so contains('\0') is true only when a content position
\* holds zero; and contains(c) agrees with find(c) < N.
C10_ContainsIffOccurs ==
  op = "contains" =>
    /\ ~res.term
    /\ res.val = (Matches(a, args[1]) # {})
    /\ \A o \in find(a, args[1]) : ~o.term /\ res.val = (o.val < a.size)

C10_Witness ==
  /\ op = "contains" /\ args[1] = NUL /\ a.size = 2
  /\ At(a, 0) # NUL /\ At(a, 1) # NUL
  /\ res.val = FALSE

=============================================================================
